---- MODULE Spec2Model ----
(***************************************************************************)
(* A model of jsonxf (src/src/jsonxf.rs): the two single-pass byte         *)
(* transformers pretty_print_stream and minimize_stream.                   *)
(*                                                                         *)
(* A behaviour is one call of one of the two functions: Init fixes which   *)
(* function is called, its input bytes and (for pretty_print_stream) the   *)
(* indent string; every step is one iteration of the `for byte in          *)
(* reader.bytes()` loop.  Bytes are modelled as one-character strings, all *)
(* of them ASCII, so the String::from_utf8 of the two convenience wrappers *)
(* returns the very same bytes.  depth is an i32 in the source; inputs are *)
(* at most a few dozen bytes long here, so it never leaves -2^31..2^31-1.  *)
(***************************************************************************)
EXTENDS Integers, Sequences, FiniteSets, TLC

VARIABLES
  call,                        \* which function runs: "pretty_print_stream" or "minimize_stream"
  input,                       \* the bytes the reader will yield
  indent,                      \* the indent parameter (pretty_print_stream only)
  pos,                         \* number of bytes the loop has read so far
  depth,                       \* let mut depth = 0
  in_string,                   \* let mut in_string = false
  in_backslash,                \* let mut in_backslash = false
  whitespace_buffer,           \* pretty_print_stream only
  current_structure_is_empty,  \* pretty_print_stream only
  print_newline,               \* minimize_stream only
  output,                      \* the bytes handed to writer.write, in order
  buf,                         \* the bytes held in the BufWriter's buffer
  sink,                        \* the bytes the caller's writer (the `output` parameter) has accepted
  result,                      \* "running", or how the call ended: "Ok", "Err", "panic"
  read_fails_at,               \* the caller's reader fails at its read number read_fails_at (0: never)
  sink_fails,                  \* the caller's writer fails once it has accepted sink_room more bytes
  sink_room,
  sink_short,                  \* the caller's writer accepts at most one byte per write call
  io_failed                    \* some read or some write of the caller's writer has returned an error

locals == <<depth, in_string, in_backslash, whitespace_buffer,
            current_structure_is_empty, print_newline>>

env == <<call, input, indent, read_fails_at, sink_fails, sink_short>>

vars == <<call, input, indent, pos, depth, in_string, in_backslash,
          whitespace_buffer, current_structure_is_empty, print_newline, output,
          buf, sink, result, read_fails_at, sink_fails, sink_room, sink_short, io_failed>>

(***************************************************************************)
(* Bytes                                                                   *)
(***************************************************************************)
Q  == "\""
BS == "\\"
NL == "\n"
SP == " "

Whitespace == {" ", "\t", "\n", "\r"}
Opens      == {"{", "["}
Closes     == {"}", "]"}

\* The bytes the exhaustively enumerated inputs are made of.
Alphabet == {"{", "}", "[", "]", ",", ":", Q, BS, SP, NL, "1"}

\* Longest exhaustively enumerated input.
MaxLen == 4

SeqsUpTo(S, n) == UNION {[1..k -> S] : k \in 0..n}

\* Concrete inputs named by the documentation and longer well-formed documents.
Scenarios ==
  { <<"{", SP, Q, "a", Q, ":", SP, Q, "b", Q, ",", SP, Q, "c", Q, ":", SP, "0", SP, "}", SP>>,
    <<"\r", NL, "\t", "n", "u", "l", "l", "\r", NL>>,
    <<"{", Q, "a", Q, ":", "1", ",", Q, "b", Q, ":", "[", "1", ",", "2", "]", "}">>,
    <<"1", SP, "2", SP, "3">>,
    <<"[", "[", "1", "]", "]">>,
    <<"[", "[", "]", ",", "{", "}", "]">>,
    <<"[", "{", Q, "a", Q, ":", "[", "]", "}", "]">>,
    <<"{", "}", NL, "[", "1", "]", SP, "{", Q, BS, Q, Q, ":", "1", "}">>,
    <<"[", Q, "{", SP, BS, BS, Q, ",", "1", "]", "[", "]">>,
    <<"{", SP, "}", SP, "[", Q, SP, Q, "]", NL>>,
    <<"[", "{", Q, "[", Q, ":", "[", "1", "]", "}", "]">>,
    <<"{", Q, "a", Q, ":", "{", Q, "b", Q, ":", "1", "}", "}", "}", "{", "{">> }

Inputs == SeqsUpTo(Alphabet, MaxLen) \cup Scenarios

\* The indent strings tried: the documented ones ("  ", "\t"), the empty one,
\* and one that is not whitespace (indent is not validated).
Indents == { <<>>, <<SP, SP>>, <<"\t">>, <<"x">> }

(***************************************************************************)
(* The loop bodies, as functions from the locals and the byte read to the  *)
(* locals after the iteration.                                             *)
(***************************************************************************)
Locals == [depth |-> depth, in_string |-> in_string, in_backslash |-> in_backslash,
           whitespace_buffer |-> whitespace_buffer,
           current_structure_is_empty |-> current_structure_is_empty,
           print_newline |-> print_newline, output |-> output, calls |-> <<>>]

InitLocals == [depth |-> 0, in_string |-> FALSE, in_backslash |-> FALSE,
               whitespace_buffer |-> <<>>, current_structure_is_empty |-> FALSE,
               print_newline |-> FALSE, output |-> <<>>, calls |-> <<>>]

\* writer.write(bytes): one call; calls lists the calls made, in order
Write(st, bytes) == [st EXCEPT !.output = @ \o bytes, !.calls = Append(@, bytes)]

\* for _ in 0..n { ... indent ... }: an empty range when n <= 0
RECURSIVE IndentTimes(_, _)
IndentTimes(ind, n) == IF n <= 0 THEN <<>> ELSE ind \o IndentTimes(ind, n - 1)

\* for _ in 0..n { writer.write(indent.as_bytes())?; }: one call per repetition
RECURSIVE WriteIndent(_, _, _)
WriteIndent(st, ind, n) == IF n <= 0 THEN st ELSE WriteIndent(Write(st, ind), ind, n - 1)

\* ---- pretty_print_stream ----

PrettyStringArm(st, b) ==
  LET w == Write(st, <<b>>) IN
  IF st.in_backslash THEN [w EXCEPT !.in_backslash = FALSE]
  ELSE IF b = Q THEN [w EXCEPT !.in_string = FALSE]
  ELSE IF b = BS THEN [w EXCEPT !.in_backslash = TRUE]
  ELSE w

PrettyOpenArm(st, b, ind) ==
  [Write(st, <<b>>) EXCEPT
     !.depth = st.depth + 1,
     !.current_structure_is_empty = TRUE,
     !.whitespace_buffer = <<NL>> \o IndentTimes(ind, st.depth + 1)]

\* a variant that ignores current_structure_is_empty
PrettyCloseArm_NoEmptyCase(st, b, ind) ==
  LET d  == st.depth - 1
      s2 == Write([st EXCEPT !.depth = d, !.current_structure_is_empty = FALSE],
                  <<NL>> \o IndentTimes(ind, d) \o <<b>>)
  IN IF d = 0 THEN Write(s2, <<NL>>) ELSE s2

\* a variant without the newline after a close that returns to depth 0
PrettyCloseArm_NoTerminator(st, b, ind) ==
  LET d  == st.depth - 1
      s1 == [st EXCEPT !.depth = d]
  IN IF st.current_structure_is_empty
     THEN [Write(s1, <<b>>) EXCEPT !.current_structure_is_empty = FALSE]
     ELSE Write(s1, <<NL>> \o IndentTimes(ind, d) \o <<b>>)

\* a variant that decrements depth only when it is positive
PrettyCloseArm_Guarded(st, b, ind) ==
  LET d  == IF st.depth > 0 THEN st.depth - 1 ELSE st.depth
      s1 == [st EXCEPT !.depth = d]
      s2 == IF st.current_structure_is_empty
            THEN [Write(s1, <<b>>) EXCEPT !.current_structure_is_empty = FALSE]
            ELSE Write(WriteIndent(Write(s1, <<NL>>), ind, d), <<b>>)
  IN IF d = 0 THEN Write(s2, <<NL>>) ELSE s2

PrettyCloseArm(st, b, ind) ==
  LET d  == st.depth - 1
      s1 == [st EXCEPT !.depth = d]
      s2 == IF st.current_structure_is_empty
            THEN [Write(s1, <<b>>) EXCEPT !.current_structure_is_empty = FALSE]
            ELSE Write(WriteIndent(Write(s1, <<NL>>), ind, d), <<b>>)
  IN IF d = 0 THEN Write(s2, <<NL>>) ELSE s2

PrettyCommaArm(st, b, ind) ==
  WriteIndent(Write(st, <<b, NL>>), ind, st.depth)

PrettyColonArm(st) == Write(st, <<":", SP>>)

\* a variant that does not enter a string at a quote
PrettyOtherArm_NoString(st, b) ==
  LET s1 == IF st.current_structure_is_empty
            THEN [Write(st, st.whitespace_buffer) EXCEPT !.current_structure_is_empty = FALSE]
            ELSE st
  IN Write(s1, <<b>>)

PrettyOtherArm(st, b) ==
  LET s1 == IF st.current_structure_is_empty
            THEN [Write(st, st.whitespace_buffer) EXCEPT !.current_structure_is_empty = FALSE]
            ELSE st
      s2 == IF b = Q THEN [s1 EXCEPT !.in_string = TRUE] ELSE s1
  IN Write(s2, <<b>>)

\* a variant that tests for whitespace before it tests in_string
PrettyByte_WhitespaceFirst(st, b, ind) ==
  IF b \in Whitespace THEN st
  ELSE IF st.in_string THEN PrettyStringArm(st, b)
  ELSE IF b \in Opens THEN PrettyOpenArm(st, b, ind)
  ELSE IF b \in Closes THEN PrettyCloseArm(st, b, ind)
  ELSE IF b = "," THEN PrettyCommaArm(st, b, ind)
  ELSE IF b = ":" THEN PrettyColonArm(st)
  ELSE PrettyOtherArm(st, b)

PrettyByte(st, b, ind) ==
  IF st.in_string THEN PrettyStringArm(st, b)
  ELSE IF b \in Whitespace THEN st
  ELSE IF b \in Opens THEN PrettyOpenArm(st, b, ind)
  ELSE IF b \in Closes THEN PrettyCloseArm(st, b, ind)
  ELSE IF b = "," THEN PrettyCommaArm(st, b, ind)
  ELSE IF b = ":" THEN PrettyColonArm(st)
  ELSE PrettyOtherArm(st, b)

\* ---- minimize_stream ----

\* a variant that tests for the quote before it tests in_backslash
MinimizeStringArm_QuoteFirst(st, b) ==
  LET w == Write(st, <<b>>) IN
  IF b = Q THEN [w EXCEPT !.in_string = FALSE]
  ELSE IF st.in_backslash THEN [w EXCEPT !.in_backslash = FALSE]
  ELSE IF b = BS THEN [w EXCEPT !.in_backslash = TRUE]
  ELSE w

MinimizeStringArm(st, b) ==
  LET w == Write(st, <<b>>) IN
  IF st.in_backslash THEN [w EXCEPT !.in_backslash = FALSE]
  ELSE IF b = Q THEN [w EXCEPT !.in_string = FALSE]
  ELSE IF b = BS THEN [w EXCEPT !.in_backslash = TRUE]
  ELSE w

\* a variant that never sets print_newline
MinimizeOpenArm_NoFlag(st, b) ==
  LET s1 == IF st.depth = 0 /\ st.print_newline THEN Write(st, <<NL>>) ELSE st
  IN [Write(s1, <<b>>) EXCEPT !.depth = st.depth + 1]

\* a variant without the test for depth 0
MinimizeOpenArm_AnyDepth(st, b) ==
  LET s1 == [(IF st.print_newline THEN Write(st, <<NL>>) ELSE st)
               EXCEPT !.print_newline = TRUE]
  IN [Write(s1, <<b>>) EXCEPT !.depth = st.depth + 1]

MinimizeOpenArm(st, b) ==
  LET s1 == IF st.depth = 0
            THEN [(IF st.print_newline THEN Write(st, <<NL>>) ELSE st)
                    EXCEPT !.print_newline = TRUE]
            ELSE st
  IN [Write(s1, <<b>>) EXCEPT !.depth = st.depth + 1]

\* a variant with the newline after a close that returns to depth 0
MinimizeCloseArm_TrailingNewline(st, b) ==
  LET s1 == [Write(st, <<b>>) EXCEPT !.depth = st.depth - 1]
  IN IF s1.depth = 0 THEN Write(s1, <<NL>>) ELSE s1

\* a variant that decrements depth only when it is positive
MinimizeCloseArm_Guarded(st, b) ==
  [Write(st, <<b>>) EXCEPT !.depth = IF st.depth > 0 THEN st.depth - 1 ELSE st.depth]

MinimizeCloseArm(st, b) ==
  [Write(st, <<b>>) EXCEPT !.depth = st.depth - 1]

\* a variant that does not enter a string at a quote
MinimizeOtherArm_NoString(st, b) == Write(st, <<b>>)

MinimizeOtherArm(st, b) ==
  LET s1 == IF b = Q THEN [st EXCEPT !.in_string = TRUE] ELSE st
  IN Write(s1, <<b>>)

\* a variant whose whitespace pattern lacks '\n'
MinimizeByte_NoLF(st, b) ==
  IF st.in_string THEN MinimizeStringArm(st, b)
  ELSE IF b \in Whitespace \ {NL} THEN st
  ELSE IF b \in Opens THEN MinimizeOpenArm(st, b)
  ELSE IF b \in Closes THEN MinimizeCloseArm(st, b)
  ELSE MinimizeOtherArm(st, b)

MinimizeByte(st, b) ==
  IF st.in_string THEN MinimizeStringArm(st, b)
  ELSE IF b \in Whitespace THEN st
  ELSE IF b \in Opens THEN MinimizeOpenArm(st, b)
  ELSE IF b \in Closes THEN MinimizeCloseArm(st, b)
  ELSE MinimizeOtherArm(st, b)

\* ---- whole calls: the loop run over all of s from the initial locals ----

RECURSIVE PrettyRun(_, _, _, _)
PrettyRun(st, s, i, ind) ==
  IF i > Len(s) THEN st ELSE PrettyRun(PrettyByte(st, s[i], ind), s, i + 1, ind)

RECURSIVE MinimizeRun(_, _, _)
MinimizeRun(st, s, i) ==
  IF i > Len(s) THEN st ELSE MinimizeRun(MinimizeByte(st, s[i]), s, i + 1)

pretty_print_stream(s, ind) == PrettyRun(InitLocals, s, 1, ind).output
minimize_stream(s)          == MinimizeRun(InitLocals, s, 1).output

(***************************************************************************)
(* Vocabulary of the claims: well-formed JSON (RFC 8259) over the bytes    *)
(* used here.  Numbers are unsigned integers and escapes are the           *)
(* two-character ones: no other form can be written with these bytes.      *)
(* Every ...End operator takes the index of the first byte to read and     *)
(* returns the index after the construct, or 0 when there is none.         *)
(***************************************************************************)
Digits      == {"0", "1", "2", "3", "4", "5", "6", "7", "8", "9"}
EscapeChars == {Q, BS, "/", "b", "f", "n", "r", "t"}
ControlChars == {"\t", "\n", "\r"}

RECURSIVE SkipWs(_, _)
SkipWs(s, i) == IF i <= Len(s) /\ s[i] \in Whitespace THEN SkipWs(s, i + 1) ELSE i

RECURSIVE StringEnd(_, _)
StringEnd(s, j) ==
  IF j > Len(s) THEN 0
  ELSE IF s[j] = Q THEN j + 1
  ELSE IF s[j] = BS
       THEN IF j + 1 <= Len(s) /\ s[j + 1] \in EscapeChars THEN StringEnd(s, j + 2) ELSE 0
  ELSE IF s[j] \in ControlChars THEN 0
  ELSE StringEnd(s, j + 1)

RECURSIVE DigitsEnd(_, _)
DigitsEnd(s, j) == IF j <= Len(s) /\ s[j] \in Digits THEN DigitsEnd(s, j + 1) ELSE j

LiteralEnd(s, i, lit) ==
  IF i + Len(lit) - 1 <= Len(s) /\ SubSeq(s, i, i + Len(lit) - 1) = lit
  THEN i + Len(lit) ELSE 0

RECURSIVE ValueEnd(_, _)
RECURSIVE ElementsEnd(_, _)
RECURSIVE MembersEnd(_, _)

\* i: the first byte of a value
ValueEnd(s, i) ==
  IF i > Len(s) THEN 0
  ELSE IF s[i] = Q THEN StringEnd(s, i + 1)
  ELSE IF s[i] = "0" THEN i + 1
  ELSE IF s[i] \in Digits THEN DigitsEnd(s, i + 1)
  ELSE IF s[i] = "n" THEN LiteralEnd(s, i, <<"n", "u", "l", "l">>)
  ELSE IF s[i] = "t" THEN LiteralEnd(s, i, <<"t", "r", "u", "e">>)
  ELSE IF s[i] = "f" THEN LiteralEnd(s, i, <<"f", "a", "l", "s", "e">>)
  ELSE IF s[i] = "["
       THEN LET j == SkipWs(s, i + 1) IN
            IF j <= Len(s) /\ s[j] = "]" THEN j + 1 ELSE ElementsEnd(s, j)
  ELSE IF s[i] = "{"
       THEN LET j == SkipWs(s, i + 1) IN
            IF j <= Len(s) /\ s[j] = "}" THEN j + 1 ELSE MembersEnd(s, j)
  ELSE 0

\* j: the first byte of an array element; returns the index after the closing ]
ElementsEnd(s, j) ==
  LET e == ValueEnd(s, j)
      k == SkipWs(s, e)
  IN IF e = 0 \/ k > Len(s) THEN 0
     ELSE IF s[k] = "," THEN ElementsEnd(s, SkipWs(s, k + 1))
     ELSE IF s[k] = "]" THEN k + 1
     ELSE 0

\* j: the first byte of an object member's key; returns the index after the closing }
MembersEnd(s, j) ==
  LET ke == IF j <= Len(s) /\ s[j] = Q THEN StringEnd(s, j + 1) ELSE 0
      c  == SkipWs(s, ke)
      ve == IF ke # 0 /\ c <= Len(s) /\ s[c] = ":" THEN ValueEnd(s, SkipWs(s, c + 1)) ELSE 0
      k  == SkipWs(s, ve)
  IN IF ve = 0 \/ k > Len(s) THEN 0
     ELSE IF s[k] = "," THEN MembersEnd(s, SkipWs(s, k + 1))
     ELSE IF s[k] = "}" THEN k + 1
     ELSE 0

\* one JSON value with optional whitespace around it
WellFormed(s) ==
  LET e == ValueEnd(s, SkipWs(s, 1)) IN e # 0 /\ SkipWs(s, e) = Len(s) + 1

\* the top-level values of a concatenation of JSON values, as <<first, last>> index
\* pairs; <<<<0, 0>>>> marks input that is no such concatenation
RECURSIVE TopValues(_, _)
TopValues(s, i) ==
  LET j == SkipWs(s, i)
      e == ValueEnd(s, j)
      rest == TopValues(s, e)
  IN IF j > Len(s) THEN <<>>
     ELSE IF e = 0 THEN << <<0, 0>> >>
     ELSE IF rest # <<>> /\ rest[1] = <<0, 0>> THEN rest
     ELSE << <<j, e - 1>> >> \o rest

IsValueStream(s) == LET v == TopValues(s, 1) IN v # <<>> /\ v[1] # <<0, 0>>

\* every top-level value of the stream is an object or an array
IsStructureStream(s) ==
  /\ IsValueStream(s)
  /\ \A k \in DOMAIN TopValues(s, 1) : s[TopValues(s, 1)[k][1]] \in Opens


(***************************************************************************)
(* The reader and the writer.  Both functions wrap the caller's writer in  *)
(* a std::io::BufWriter and never call flush: bytes reach the caller's     *)
(* writer when the buffer runs full, when a single write is at least as    *)
(* long as the buffer, and when the BufWriter is dropped at the return.    *)
(* The number of bytes writer.write reports as written is never looked at. *)
(* A writer record holds the buffer, the bytes the caller's writer has     *)
(* accepted, the bytes it will still accept before it fails, whether the   *)
(* call just made returned an error, and whether any call ever did.        *)
(***************************************************************************)

\* Capacity of the BufWriter's buffer (8192 in std, scaled down).
BufCapacity == 3

\* depth is an i32
I32Max == 2147483647
I32Min == -I32Max - 1

Min(a, b) == IF a <= b THEN a ELSE b

Writer == [buf |-> buf, sink |-> sink, room |-> sink_room, err |-> FALSE, failed |-> io_failed]

\* the number of bytes one write call of the caller's writer accepts, -1 for an error
Accepts(w, bytes) ==
  IF sink_fails /\ w.room = 0 /\ bytes # <<>> THEN -1
  ELSE Min(Len(bytes),
           Min(IF sink_short THEN 1 ELSE Len(bytes),
               IF sink_fails THEN w.room ELSE Len(bytes)))

\* BufWriter::flush_buf: write the buffer to the caller's writer until it is empty or
\* a write fails; the bytes not written stay in the buffer
RECURSIVE FlushBuf(_)
FlushBuf(w) ==
  IF w.buf = <<>> THEN w
  ELSE LET n == Accepts(w, w.buf) IN
       IF n <= 0 THEN [w EXCEPT !.err = TRUE, !.failed = TRUE]
       ELSE FlushBuf([w EXCEPT !.sink = @ \o SubSeq(w.buf, 1, n),
                               !.buf = SubSeq(w.buf, n + 1, Len(w.buf)),
                               !.room = IF sink_fails THEN @ - n ELSE @])

\* BufWriter::write(bytes), its Ok(n) discarded by the caller: flush first when bytes
\* do not fit; bytes at least as long as the buffer go to the caller's writer in one
\* write call, which may accept only a part of them; shorter ones are buffered
BufWrite(w, bytes) ==
  LET w1 == IF Len(w.buf) + Len(bytes) > BufCapacity THEN FlushBuf(w) ELSE w IN
  IF w1.err THEN w1
  ELSE IF Len(bytes) >= BufCapacity
       THEN LET n == Accepts(w1, bytes) IN
            IF n < 0 THEN [w1 EXCEPT !.err = TRUE, !.failed = TRUE]
            ELSE [w1 EXCEPT !.sink = @ \o SubSeq(bytes, 1, n),
                            !.room = IF sink_fails THEN @ - n ELSE @]
       ELSE [w1 EXCEPT !.buf = @ \o bytes]

\* the write calls of one iteration, in order, up to the first that fails (`?`);
\* made counts the calls made
RECURSIVE WriteCalls(_, _, _)
WriteCalls(w, calls, i) ==
  IF i > Len(calls) THEN [w |-> w, made |-> Len(calls)]
  ELSE LET w1 == BufWrite(w, calls[i]) IN
       IF w1.err THEN [w |-> w1, made |-> i] ELSE WriteCalls(w1, calls, i + 1)

\* impl Drop for BufWriter: flush_buf with its result discarded
DropWriter(w) == [FlushBuf([w EXCEPT !.err = FALSE]) EXCEPT !.err = FALSE]

RECURSIVE Concat(_, _)
Concat(chunks, n) == IF n = 0 THEN <<>> ELSE Concat(chunks, n - 1) \o chunks[n]

(***************************************************************************)
(* The state machine                                                       *)
(***************************************************************************)
\* the state before the loop, for any reader and writer
InitCall ==
  /\ call \in {"pretty_print_stream", "minimize_stream"}
  /\ indent \in (IF call = "pretty_print_stream" THEN Indents ELSE {<<>>})
  /\ pos = 0
  /\ depth = 0
  /\ in_string = FALSE
  /\ in_backslash = FALSE
  /\ whitespace_buffer = <<>>
  /\ current_structure_is_empty = FALSE
  /\ print_newline = FALSE
  /\ output = <<>>
  /\ buf = <<>>
  /\ sink = <<>>
  /\ result = "running"
  /\ io_failed = FALSE

\* a reader and a writer that never fail and a writer that accepts every byte it is
\* given, as the slice and the Vec of pretty_print and minimize are
Init ==
  /\ input \in Inputs
  /\ read_fails_at = 0
  /\ sink_fails = FALSE
  /\ sink_room = 0
  /\ sink_short = FALSE
  /\ InitCall

Assign(st) ==
  /\ depth' = st.depth
  /\ in_string' = st.in_string
  /\ in_backslash' = st.in_backslash
  /\ whitespace_buffer' = st.whitespace_buffer
  /\ current_structure_is_empty' = st.current_structure_is_empty
  /\ print_newline' = st.print_newline
  /\ output' = st.output

AssignWriter(w) ==
  /\ buf' = w.buf
  /\ sink' = w.sink
  /\ sink_room' = w.room
  /\ io_failed' = w.failed

\* one iteration of a loop whose body takes the locals to st: the read (`byte?`),
\* then the body with its write calls (`writer.write(..)?`); an error returns at once,
\* dropping the writer; depth leaving the i32 range panics (overflow checks on)
Iteration(st) ==
  /\ result = "running"
  /\ pos < Len(input)
  /\ UNCHANGED env
  /\ IF read_fails_at = pos + 1
     THEN /\ result' = "Err"
          /\ AssignWriter(DropWriter([Writer EXCEPT !.failed = TRUE]))
          /\ UNCHANGED <<pos, locals, output>>
     ELSE LET r == WriteCalls(Writer, st.calls, 1) IN
          /\ pos' = pos + 1
          /\ IF r.w.err
             THEN /\ result' = "Err"
                  /\ AssignWriter(DropWriter(r.w))
                  /\ output' = output \o Concat(st.calls, r.made)
                  /\ UNCHANGED locals
             ELSE IF st.depth > I32Max \/ st.depth < I32Min
             THEN /\ result' = "panic"
                  /\ AssignWriter(DropWriter(r.w))
                  /\ UNCHANGED <<locals, output>>
             ELSE /\ result' = "running"
                  /\ AssignWriter(r.w)
                  /\ Assign(st)

\* one iteration of the loop of pretty_print_stream
PrettyPrintStep ==
  /\ call = "pretty_print_stream"
  /\ pos < Len(input)
  /\ Iteration(PrettyByte(Locals, input[pos + 1], indent))

\* one iteration of the loop of minimize_stream
MinimizeStep ==
  /\ call = "minimize_stream"
  /\ pos < Len(input)
  /\ Iteration(MinimizeByte(Locals, input[pos + 1]))

\* the reader is exhausted: return Ok(()), dropping the writer
Return ==
  /\ result = "running"
  /\ pos = Len(input)
  /\ result' = "Ok"
  /\ AssignWriter(DropWriter(Writer))
  /\ UNCHANGED <<env, pos, locals, output>>

Next == PrettyPrintStep \/ MinimizeStep \/ Return

Spec == Init /\ [][Next]_vars

\* Longest input, and most bytes a failing writer accepts, when the caller's reader
\* and writer may fail.
MaxIOLen == 2
MaxRoom  == 3

\* any reader and writer: the reader may fail at any read, the writer may fail after
\* any number of bytes and may accept less than it is given
InitIO ==
  /\ input \in SeqsUpTo(Alphabet, MaxIOLen)
  /\ read_fails_at \in 0..Len(input)
  /\ sink_fails \in BOOLEAN
  /\ sink_room \in (IF sink_fails THEN 0..MaxRoom ELSE {0})
  /\ sink_short \in BOOLEAN
  /\ InitCall

SpecIO == InitIO /\ [][Next]_vars

\* a reader and a writer that never fail, on the shorter inputs and the scenarios
InitFair ==
  /\ input \in SeqsUpTo(Alphabet, MaxIOLen) \cup Scenarios
  /\ read_fails_at = 0
  /\ sink_fails = FALSE
  /\ sink_room = 0
  /\ sink_short = FALSE
  /\ InitCall

\* the loop runs on until the function returns: nothing but the reader and the
\* writer, which do not block here, can suspend it
FairSpec == InitFair /\ [][Next]_vars /\ WF_vars(Next)

\* the loop has consumed the reader: the function returns Ok(())
Done == pos = Len(input)

(***************************************************************************)
(* Vocabulary of the claims, continued                                     *)
(***************************************************************************)
IsPretty   == call = "pretty_print_stream"
IsMinimize == call = "minimize_stream"

\* the bytes written by the step being taken
Emitted == SubSeq(output', Len(output) + 1, Len(output'))

\* StringMask(s)[k]: byte k of s is string content, i.e. lies after an unescaped
\* opening quote, up to and including the unescaped closing quote
RECURSIVE MaskFrom(_, _, _, _)
MaskFrom(s, i, inside, escaped) ==
  IF i > Len(s) THEN <<>>
  ELSE IF inside
       THEN <<TRUE>> \o MaskFrom(s, i + 1, escaped \/ s[i] # Q, ~escaped /\ s[i] = BS)
       ELSE <<FALSE>> \o MaskFrom(s, i + 1, s[i] = Q, FALSE)

StringMask(s) == MaskFrom(s, 1, FALSE, FALSE)

\* the index of the unescaped quote that opened the string byte k of s lies in
OpeningQuote(s, k) ==
  LET m == StringMask(s)
  IN CHOOSE j \in 1..k : /\ ~m[j] /\ s[j] = Q
                         /\ \A i \in (j + 1)..k : m[i]

\* after the first p bytes of s the next byte would be string content
InsideAfter(s, p) == StringMask(Append(SubSeq(s, 1, p), SP))[p + 1]

AllWhitespace(s) == \A i \in DOMAIN s : s[i] \in Whitespace

InsertAt(s, i, w) == SubSeq(s, 1, i) \o w \o SubSeq(s, i + 1, Len(s))

\* the places between the tokens of well-formed s: i is such a place when a token
\* ends at byte i or s ends there (0: before the first byte)
RECURSIVE BoundariesFrom(_, _)
BoundariesFrom(s, i) ==
  IF i > Len(s) THEN {Len(s)}
  ELSE LET e == IF s[i] = Q THEN StringEnd(s, i + 1)
                ELSE IF s[i] \in Digits THEN DigitsEnd(s, i + 1)
                ELSE IF s[i] = "n" THEN LiteralEnd(s, i, <<"n", "u", "l", "l">>)
                ELSE IF s[i] = "t" THEN LiteralEnd(s, i, <<"t", "r", "u", "e">>)
                ELSE IF s[i] = "f" THEN LiteralEnd(s, i, <<"f", "a", "l", "s", "e">>)
                ELSE i + 1
       IN {i - 1} \cup (IF e = 0 THEN {} ELSE BoundariesFrom(s, e))

TokenBoundaries(s) == BoundariesFrom(s, 1)

\* RefDepth(s, k): opens minus closes among the bytes of s before byte k that are
\* not string content
RECURSIVE RefDepth(_, _)
RefDepth(s, k) ==
  IF k <= 1 THEN 0
  ELSE RefDepth(s, k - 1)
       + (IF StringMask(s)[k - 1] THEN 0
          ELSE IF s[k - 1] \in Opens THEN 1
          ELSE IF s[k - 1] \in Closes THEN -1
          ELSE 0)

\* byte k of s is whitespace that is not string content
IsOuterWs(s, k) == s[k] \in Whitespace /\ ~StringMask(s)[k]

\* byte k of out is a separator between top-level values: a newline outside strings,
\* at depth 0, after some byte that is not outer whitespace and right before an open
IsSeparator(out, k) ==
  /\ out[k] = NL /\ ~StringMask(out)[k]
  /\ 1 < k /\ k < Len(out)
  /\ ~IsOuterWs(out, k - 1)
  /\ out[k + 1] \in Opens
  /\ RefDepth(out, k) = 0

\* s without the bytes whose index satisfies drop
Without(s, drop(_)) ==
  LET RECURSIVE keep(_)
      keep(i) == IF i > Len(s) THEN <<>>
                 ELSE (IF drop(i) THEN <<>> ELSE <<s[i]>>) \o keep(i + 1)
  IN keep(1)

\* s with every whitespace byte outside string content removed
StripOuterWs(s) == LET d(i) == IsOuterWs(s, i) IN Without(s, d)

\* out with its separators removed
StripSeparators(out) == LET d(i) == IsSeparator(out, i) IN Without(out, d)

\* the minimized top-level values of a stream, joined by one newline each
RECURSIVE JoinMinimized(_, _, _)
JoinMinimized(s, vals, k) ==
  IF k > Len(vals) THEN <<>>
  ELSE (IF k > 1 THEN <<NL>> ELSE <<>>)
       \o minimize_stream(SubSeq(s, vals[k][1], vals[k][2]))
       \o JoinMinimized(s, vals, k + 1)

NewlineCount(s) == Cardinality({k \in DOMAIN s : s[k] = NL /\ ~StringMask(s)[k]})

\* the last byte among the first p bytes of s that is not whitespace ("" if none)
RECURSIVE LastSignificant(_, _)
LastSignificant(s, p) ==
  IF p = 0 THEN ""
  ELSE IF s[p] \in Whitespace THEN LastSignificant(s, p - 1)
  ELSE s[p]

\* Longest run of whitespace inserted at one place.
MaxWsRun == 2

WsRuns == SeqsUpTo(Whitespace, MaxWsRun)

(***************************************************************************)
(* The claims                                                              *)
(***************************************************************************)

\* C1, part 1: a step that reads a byte while in_string is true writes exactly that
\* byte and leaves depth, current_structure_is_empty, whitespace_buffer and
\* print_newline alone, in both functions.
StringByteFrame ==
  (in_string /\ pos' = pos + 1) =>
     /\ output' = Append(output, input[pos + 1])
     /\ UNCHANGED <<depth, current_structure_is_empty, whitespace_buffer, print_newline>>

\* C1, part 2: whenever the last byte read is string content, the output ends with
\* the input from the opening quote to that byte, verbatim, and in_string tells
\* whether the string is still open; at the end of the input this is the remainder
\* of an unterminated string.
StringCopiedVerbatim ==
  /\ in_string = InsideAfter(input, pos)
  /\ (pos > 0 /\ StringMask(input)[pos]) =>
        LET k == OpeningQuote(input, pos)
            n == pos - k + 1
        IN /\ Len(output) >= n
           /\ SubSeq(output, Len(output) - n + 1, Len(output)) = SubSeq(input, k, pos)

\* C1: string content preservation: every byte read inside a string is written
\* unchanged and in order, changes no structural state and causes no extra byte,
\* and an unterminated string passes the rest of the input through verbatim.
StringContentPreserved == [][StringByteFrame]_vars /\ []StringCopiedVerbatim

\* C1 witness: inside a string after an escaped quote (which did not close it), in a
\* structure, with the input exhausted (the string is unterminated).
StringContentWitness ==
  /\ pos = Len(input) /\ pos >= 4 /\ in_string /\ ~in_backslash
  /\ input[pos] = Q /\ input[pos - 1] = BS /\ input[pos - 2] = Q
  /\ depth = 1

\* C2: idempotence of minimize: minimizing the output of minimize changes nothing,
\* whatever the input.
MinimizeIdempotent ==
  (IsMinimize /\ Done) => minimize_stream(output) = output

\* C2 witness: a finished minimize of malformed input (unbalanced) that dropped
\* whitespace and inserted a separating newline.
MinimizeIdempotentWitness ==
  /\ IsMinimize /\ Done /\ depth # 0
  /\ \E i \in DOMAIN input : input[i] \in Whitespace
  /\ \E k \in DOMAIN output : output[k] = NL /\ ~StringMask(output)[k]

\* C3 as stated: for every well-formed input and any indent,
\* minimize(pretty_print(s, indent)) = minimize(s).
RoundTripAnyIndent ==
  (IsPretty /\ Done /\ WellFormed(input)) =>
     minimize_stream(output) = minimize_stream(input)

\* C3 as amended: for every well-formed input and any indent made of whitespace
\* bytes only, minimize(pretty_print(s, indent)) = minimize(s).
RoundTripWhitespaceIndent ==
  (IsPretty /\ Done /\ WellFormed(input) /\ AllWhitespace(indent)) =>
     minimize_stream(output) = minimize_stream(input)

\* C3 witness: a finished pretty-print of a well-formed nested document that wrote
\* indentation at depth 2 with a non-empty whitespace indent.
RoundTripWitness ==
  /\ IsPretty /\ Done /\ WellFormed(input) /\ AllWhitespace(indent) /\ indent # <<>>
  /\ \E k \in DOMAIN output :
        /\ k + 2 * Len(indent) <= Len(output)
        /\ output[k] = NL
        /\ SubSeq(output, k + 1, k + 2 * Len(indent)) = indent \o indent

\* C4: whitespace insignificance: inserting runs of whitespace at one or at two
\* places between the tokens of a well-formed document does not change the
\* minimized output.
WhitespaceInsignificant ==
  (IsMinimize /\ Done /\ WellFormed(input)) =>
     /\ \A i \in TokenBoundaries(input) : \A w \in WsRuns :
           minimize_stream(InsertAt(input, i, w)) = output
     /\ \A i, j \in TokenBoundaries(input) : \A w1, w2 \in Whitespace :
           i <= j => minimize_stream(InsertAt(InsertAt(input, j, <<w2>>), i, <<w1>>)) = output

\* C4 witness: a finished minimize of a well-formed document with a string, at
\* least six tokens and a structure, so that there are places inside the structure.
WhitespaceInsignificantWitness ==
  /\ IsMinimize /\ Done /\ WellFormed(input)
  /\ Cardinality(TokenBoundaries(input)) >= 7
  /\ \E i \in DOMAIN input : input[i] = Q
  /\ \E i \in DOMAIN input : input[i] \in Opens

\* every whitespace byte of the minimized output that is not string content is a
\* single separating newline
OnlySeparators == \A k \in DOMAIN output : IsOuterWs(output, k) => IsSeparator(output, k)

\* C5 as stated: for every input the minimized output has no whitespace outside
\* string content except the single newline between top-level values, and its last
\* byte is never a newline.
MinimizeWhitespaceGuarantee ==
  (IsMinimize /\ Done) =>
     /\ OnlySeparators
     /\ (output # <<>> => output[Len(output)] # NL)

\* C5 as amended: for every input the minimized output has no whitespace outside
\* string content except the single newline between top-level values, and its last
\* byte is a newline only when that byte is string content (the input ends inside
\* an unterminated string whose last byte is a newline).
MinimizeWhitespaceGuaranteeOutsideStrings ==
  (IsMinimize /\ Done) =>
     /\ OnlySeparators
     /\ (output # <<>> /\ output[Len(output)] = NL) =>
           /\ StringMask(output)[Len(output)]
           /\ in_string /\ input[Len(input)] = NL

\* C5 witness: a finished minimize whose input had whitespace outside strings and
\* ended with a newline after a top-level structure, and whose output holds a
\* separator.
MinimizeWhitespaceWitness ==
  /\ IsMinimize /\ Done /\ ~in_string
  /\ Len(input) >= 4 /\ input[Len(input)] = NL /\ input[Len(input) - 1] \in Closes
  /\ \E k \in DOMAIN output : IsSeparator(output, k)

\* C6 as stated: for an input that is a concatenation of top-level JSON values, the
\* minimized output is the minimized values with exactly one newline between each
\* consecutive pair and none after the last.
TopLevelValuesSeparated ==
  (IsMinimize /\ Done /\ IsValueStream(input)) =>
     /\ output = JoinMinimized(input, TopValues(input, 1), 1)
     /\ NewlineCount(output) = Len(TopValues(input, 1)) - 1

\* C6 as amended: for an input that is a concatenation of top-level JSON objects and
\* arrays, the minimized output is the minimized values with exactly one newline
\* between each consecutive pair and none after the last.
TopLevelStructuresSeparated ==
  (IsMinimize /\ Done /\ IsStructureStream(input)) =>
     /\ output = JoinMinimized(input, TopValues(input, 1), 1)
     /\ NewlineCount(output) = Len(TopValues(input, 1)) - 1
     /\ output[Len(output)] # NL

\* C6 witness: a finished minimize of three concatenated top-level structures.
TopLevelSeparatedWitness ==
  /\ IsMinimize /\ Done /\ IsStructureStream(input)
  /\ Len(TopValues(input, 1)) = 3
  /\ NewlineCount(output) = 2

\* C7: minimize reference behaviour: for every input, the output without its
\* separators is the input without its whitespace outside string content; the two
\* documented examples give {"a":"b","c":0} and null.
MinimizeReference ==
  (IsMinimize /\ Done) =>
     /\ StripSeparators(output) = StripOuterWs(input)
     /\ input = <<"{", SP, Q, "a", Q, ":", SP, Q, "b", Q, ",", SP, Q, "c", Q, ":", SP, "0", SP, "}", SP>>
           => output = <<"{", Q, "a", Q, ":", Q, "b", Q, ",", Q, "c", Q, ":", "0", "}">>
     /\ input = <<"\r", NL, "\t", "n", "u", "l", "l", "\r", NL>>
           => output = <<"n", "u", "l", "l">>

\* C7 witness: a finished minimize that removed whitespace outside a string, kept
\* whitespace inside one and inserted a separator.
MinimizeReferenceWitness ==
  /\ IsMinimize /\ Done
  /\ \E i \in DOMAIN input : IsOuterWs(input, i)
  /\ \E i \in DOMAIN input : input[i] \in Whitespace /\ StringMask(input)[i]
  /\ \E k \in DOMAIN output : IsSeparator(output, k)

\* the layout of one byte read outside a string by pretty_print_stream on
\* well-formed input: the first byte of a structure's first member (a byte that is
\* not a close, read right after an open bracket) is preceded by a newline and depth
\* repetitions of indent; a comma is followed by a newline and depth repetitions of
\* indent; a colon is followed by one space; the close of a non-empty structure is
\* preceded by a newline and the decremented depth's repetitions of indent.
LayoutStep ==
  (IsPretty /\ WellFormed(input) /\ pos' = pos + 1 /\ ~in_string) =>
     LET b      == input[pos + 1]
         first  == LastSignificant(input, pos) \in Opens
         lead   == IF first THEN <<NL>> \o IndentTimes(indent, depth) ELSE <<>>
         term   == IF depth' = 0 THEN <<NL>> ELSE <<>>
     IN IF b \in Whitespace THEN Emitted = <<>>
        ELSE IF b \in Closes
             THEN first \/ Emitted = <<NL>> \o IndentTimes(indent, depth - 1) \o <<b>> \o term
        ELSE IF b = "," THEN Emitted = <<",", NL>> \o IndentTimes(indent, depth)
        ELSE IF b = ":" THEN Emitted = <<":", SP>>
        ELSE Emitted = lead \o <<b>>

LayoutExample ==
  (IsPretty /\ Done /\ indent = <<SP, SP>>
     /\ input = <<"{", Q, "a", Q, ":", "1", ",", Q, "b", Q, ":", "[", "1", ",", "2", "]", "}">>)
  => output = <<"{", NL,
                SP, SP, Q, "a", Q, ":", SP, "1", ",", NL,
                SP, SP, Q, "b", Q, ":", SP, "[", NL,
                SP, SP, SP, SP, "1", ",", NL,
                SP, SP, SP, SP, "2", NL,
                SP, SP, "]", NL,
                "}", NL>>

\* C8: pretty-print layout: on well-formed input every member is placed on its own
\* line after a newline and depth repetitions of indent, commas, colons and
\* non-empty closes are laid out as in LayoutStep, and the documented example gives
\* the seven-line output followed by a newline.
PrettyLayout == [][LayoutStep]_vars /\ []LayoutExample

\* C9 as stated: pretty-printing {} yields exactly {} and pretty-printing [] yields
\* exactly [].
EmptyStructureExact ==
  (IsPretty /\ Done /\ input \in {<<"{", "}">>, <<"[", "]">>}) => output = input

\* C9 as amended: pretty-printing {} yields {} and pretty-printing [] yields [], with
\* nothing between the brackets, followed by the one newline that ends a top-level
\* value.
EmptyStructureThenNewline ==
  (IsPretty /\ Done /\ input \in {<<"{", "}">>, <<"[", "]">>}) =>
     output = input \o <<NL>>

\* C9 witness: a finished pretty-print of {} with a two-space indent.
EmptyStructureWitness ==
  IsPretty /\ Done /\ input = <<"{", "}">> /\ indent = <<SP, SP>> /\ Len(output) = 3

\* a close read outside a string writes the close byte last when depth stays
\* non-zero, and the close byte and then one newline when depth becomes 0
TerminatorStep ==
  (IsPretty /\ pos' = pos + 1 /\ ~in_string /\ input[pos + 1] \in Closes) =>
     LET b == input[pos + 1]
         n == Len(Emitted)
     IN IF depth' = 0
        THEN /\ n >= 2 /\ Emitted[n] = NL /\ Emitted[n - 1] = b
             /\ (n >= 3 => Emitted[n - 2] # b)
             /\ Cardinality({k \in 1..n : Emitted[k] = b}) = 1
        ELSE /\ n >= 1 /\ Emitted[n] = b
             /\ Cardinality({k \in 1..n : Emitted[k] = b}) = 1

TerminatorExample ==
  (IsPretty /\ Done /\ input = <<"{", "}">> /\ indent = <<SP, SP>>) =>
     output = <<"{", "}", NL>>

\* C10: pretty-print top-level terminator: a close outside a string that brings
\* depth to 0 is followed at once by exactly one newline, a close that leaves depth
\* non-zero by none; pretty_print of {} with two spaces is {} and one newline.
TopLevelTerminator == [][TerminatorStep]_vars /\ []TerminatorExample

\* C10 witness: a pretty-print that has closed an inner structure (the output then
\* ended with that close byte, no newline) and then the outer one (the output now
\* ends with the close byte and one newline).
TopLevelTerminatorWitness ==
  /\ IsPretty /\ pos >= 4 /\ depth = 0 /\ ~in_string
  /\ input[pos] \in Closes /\ input[pos - 1] \in Closes
  /\ LET before == pretty_print_stream(SubSeq(input, 1, pos - 1), indent)
     IN /\ before[Len(before)] = input[pos - 1]
        /\ output = before \o <<NL>> \o <<input[pos], NL>>

\* C11: I/O failure propagation: once a read of the source or a write to the sink
\* (the flush of the buffered output included) has failed, the call has returned an
\* error, and it never returns success.
IOFailurePropagated == io_failed => result = "Err"

\* C12: flush before success: when the call has returned success the sink holds
\* exactly the bytes the scanner emitted, in order, and the buffer is empty.
FlushedBeforeSuccess == result = "Ok" => (sink = output /\ buf = <<>>)

\* with a reader and a writer that do not fail: every step reads exactly the next
\* byte and goes on, or returns Ok(()) when the input is exhausted; a close read at
\* depth <= 0 writes the close byte, after a newline unless the structure is marked
\* empty, and no indentation
RobustStep ==
  /\ \/ pos < Len(input) /\ pos' = pos + 1 /\ result' = "running"
     \/ pos = Len(input) /\ pos' = pos /\ result' = "Ok"
  /\ (IsPretty /\ pos < Len(input) /\ ~in_string /\ input[pos + 1] \in Closes /\ depth <= 0) =>
        /\ Emitted = (IF current_structure_is_empty THEN <<>> ELSE <<NL>>) \o <<input[pos + 1]>>
        /\ depth' = depth - 1
  /\ (IsMinimize /\ pos < Len(input) /\ ~in_string /\ input[pos + 1] \in Closes /\ depth <= 0) =>
        /\ Emitted = <<input[pos + 1]>>
        /\ depth' = depth - 1

\* with a reader and a writer that do not fail the call is never stuck, never ends
\* in an error or a panic, and has read all of the input when it returns
RobustState ==
  /\ result \in {"running", "Ok"}
  /\ pos <= Len(input)
  /\ result = "running" => ENABLED Next
  /\ result = "Ok" => pos = Len(input) /\ sink = output

\* C13: robustness on malformed input: for every input, unbalanced brackets and
\* unterminated strings included, both functions read each byte exactly once, never
\* panic, and return success when the reader and the writer do not fail; a close at
\* depth <= 0 writes no indentation and the scan goes on.
Robust == []RobustState /\ [][RobustStep]_vars /\ <>(result = "Ok")

\* C13 witness: a call that returned success after reading input that drove depth
\* below 0 and ended inside an unterminated string.
RobustWitness ==
  /\ result = "Ok" /\ in_string /\ depth < 0
  /\ \E k \in 1..Len(input) : RefDepth(input, k) < 0

\* a step of minimize_stream outside a string writes nothing, the byte read, or a
\* newline and the byte read; the newline only for an open bracket read at depth 0
SeparatorStep ==
  (IsMinimize /\ pos' = pos + 1 /\ ~in_string) =>
     LET b == input[pos + 1] IN
     \/ Emitted = <<>> /\ b \in Whitespace
     \/ Emitted = <<b>>
     \/ Emitted = <<NL, b>> /\ b \in Opens /\ depth = 0

ScalarsExample ==
  (IsMinimize /\ Done /\ input = <<"1", SP, "2", SP, "3">>) => output = <<"1", "2", "3">>

\* C14: minimize of top-level scalars: minimize inserts a newline only at an open
\* bracket read at depth 0, top-level scalars get no separator, and minimize of
\* 1 2 3 is 123.
ScalarsNotSeparated == [][SeparatorStep]_vars /\ []ScalarsExample

\* C14 witness: a finished minimize of three top-level scalars, written without any
\* newline.
ScalarsNotSeparatedWitness ==
  /\ IsMinimize /\ Done /\ IsValueStream(input)
  /\ Len(TopValues(input, 1)) = 3
  /\ \A i \in DOMAIN input : input[i] \notin Opens \cup {Q}
  /\ Len(output) = 3 /\ NewlineCount(output) = 0

\* an open bracket read right after an open bracket is preceded by a newline and
\* depth repetitions of indent
NestedFirstStep ==
  (IsPretty /\ WellFormed(input) /\ pos' = pos + 1 /\ ~in_string
     /\ input[pos + 1] \in Opens /\ LastSignificant(input, pos) \in Opens) =>
     Emitted = <<NL>> \o IndentTimes(indent, depth) \o <<input[pos + 1]>>

NestedFirstExample ==
  (IsPretty /\ Done /\ indent = <<SP, SP>> /\ input = <<"[", "[", "1", "]", "]">>) =>
     output = <<"[", NL, SP, SP, "[", NL, SP, SP, SP, SP, "1", NL, SP, SP, "]", NL, "]", NL>>

\* C15: nested first member indentation: on well-formed input a member that is an
\* object or array and the first member of its enclosing structure is placed on its
\* own line, after a newline and the enclosing depth's repetitions of indent.
NestedFirstMemberIndented == [][NestedFirstStep]_vars /\ []NestedFirstExample

\* the number of consecutive backslashes that end at byte p of s, byte k excluded
RECURSIVE BackslashRun(_, _, _)
BackslashRun(s, p, k) ==
  IF p > k /\ s[p] = BS THEN 1 + BackslashRun(s, p - 1, k) ELSE 0

\* in_backslash holds only inside a string, exactly when the string's content read
\* so far ends with an odd number of backslashes
EscapeState ==
  /\ in_backslash => in_string
  /\ in_string => (in_backslash <=> BackslashRun(input, pos, OpeningQuote(input, pos)) % 2 = 1)

\* a byte read sets in_backslash exactly when it is a backslash read inside a string
\* with in_backslash false; a quote read inside a string closes the string exactly
\* when in_backslash is false
EscapeStep ==
  (pos' = pos + 1) =>
     LET b == input[pos + 1] IN
     /\ in_backslash' <=> (in_string /\ ~in_backslash /\ b = BS)
     /\ (in_string /\ b = Q) => (in_string' <=> in_backslash)
     /\ (in_string /\ b # Q) => in_string'

\* C16: escape-state invariant: in both functions in_backslash is true only if
\* in_string is, it is set only by an unescaped backslash read inside a string and
\* cleared by the next byte, so a quote after an escaped backslash closes the string
\* and an escaped quote does not.
EscapeStateInvariant == []EscapeState /\ [][EscapeStep]_vars

\* C16 witness: the quote after an escaped backslash has just closed a string.
EscapeStateWitness ==
  /\ pos >= 4 /\ ~in_string /\ ~in_backslash
  /\ input[pos] = Q /\ input[pos - 1] = BS /\ input[pos - 2] = BS /\ input[pos - 3] = Q
  /\ StringMask(input)[pos] /\ ~StringMask(input)[pos - 3]

\* C17: depth invariant: after every byte depth is the number of open brackets read
\* outside strings minus the number of close brackets read outside strings, in both
\* functions; on well-formed input it is never negative and it is 0 at the end.
DepthInvariant ==
  /\ depth = RefDepth(input, pos + 1)
  /\ WellFormed(input) => (depth >= 0 /\ (Done => depth = 0))

\* C17 witness: the end of a well-formed document nested two deep that has a bracket
\* inside a string.
DepthInvariantWitness ==
  /\ Done /\ WellFormed(input) /\ depth = 0
  /\ \E k \in 1..Len(input) : RefDepth(input, k) >= 2
  /\ \E k \in 1..Len(input) : input[k] \in Opens /\ StringMask(input)[k]

\* C18: shared classification: after every byte read, in_string, in_backslash and
\* depth are what the other function holds after the same bytes, for any indent.
SharedClassification ==
  LET read == SubSeq(input, 1, pos)
      same(st) == /\ st.in_string = in_string
                  /\ st.in_backslash = in_backslash
                  /\ st.depth = depth
  IN /\ IsPretty => same(MinimizeRun(InitLocals, read, 1))
     /\ IsMinimize => \A ind \in Indents : same(PrettyRun(InitLocals, read, 1, ind))

\* C18 witness: a pretty-print in a structure, inside a string, after a backslash,
\* whose output differs from what minimize writes for the same bytes.
SharedClassificationWitness ==
  /\ IsPretty /\ pos >= 3 /\ depth >= 1 /\ in_string /\ in_backslash
  /\ output # minimize_stream(SubSeq(input, 1, pos))

====
